---- MODULE Spec2Model ----
(***************************************************************************)
(* Model of the stride-scheduling task manager (os/src/task/manager.rs)    *)
(* and of the process syscalls (os/src/syscall/process.rs): copyout,       *)
(* sys_mmap and sys_munmap.                                                *)
(*                                                                         *)
(* Machine words are scaled down: usize is WordBits wide and arithmetic on *)
(* it wraps (the kernel is built in release mode); a page is               *)
(* 2^PageSizeBits bytes; a stride is kept modulo StrideMod.                *)
(***************************************************************************)
EXTENDS Integers, Sequences, FiniteSets, TLC

\* ---------------------------------------------------------------- bounds
NumTasks == 3
StrideMod == 4
MaxPass == 2
MaxTime == 1
WordBits == 3
PageSizeBits == 1
MaxStart == 2
MaxLen == 3
MaxPort == 9
NumFrames == 3
MaxCopy == 4
MaxByte == 2

Tasks == 1..NumTasks
None == 0

VARIABLES
    constructed,  \* TASK_MANAGER has been built (lazy_static, first use)
    start_time,   \* TaskManager.start_time
    ready_queue,  \* TaskManager.ready_queue, front first
    stride,       \* TaskControlBlockInner.stride of every task
    pass,         \* per-task increment applied by add_stride()
    status,       \* task life cycle as the callers of add/fetch see it
    current,      \* the task the processor runs, or None
    time,         \* the timer read by get_time_ms()
    op,           \* the last operation performed
    ret,          \* what fetch() returned when it was the last operation
                  \* (None = nothing ready), None after any other operation
    outstanding   \* per task: add() calls minus fetch() returns of that task

schedVars == <<constructed, start_time, ready_queue, stride, pass, status,
               current, time, op, ret, outstanding>>

VARIABLES
    maps,     \* the address space: the set of mapped pages
    mm_pre,   \* the address space before the last mmap/munmap syscall
    last,     \* the last mmap/munmap syscall: arguments, result (panicked: the
              \* kernel panicked instead of returning), mapper request
    chain     \* history: how far (n) the last calls went through the sequence
              \* mmap(start, raw, port) = 0, munmap(start, len), munmap(start,
              \* len) with len the rounded raw, and the address space before it

mmVars == <<maps, mm_pre, last, chain>>

VARIABLES
    pt,       \* the current task's page table: virtual page -> physical frame
    mem,      \* physical memory: byte address -> byte
    cp        \* the copyout made: destination address, source bytes, done

copyVars == <<pt, mem, cp>>

VARIABLES
    seen      \* the last get_start_time() call: made at all (called), and
              \* the value it returned

infoVars == <<seen>>

vars == <<schedVars, mmVars, copyVars, infoVars>>

\* ------------------------------------------------------- TaskManager code

\* Iterator::min_by_key over ready_queue.iter().enumerate(): a left fold
\* that replaces the best entry only when the new key is strictly smaller.
\* the FIFO scheduler this one replaced (pop_front): the front entry wins
MinByKeyFrom_fifo(q, st, i, best) == best

\* the last of the entries with the minimum stride, as a scan that replaces the
\* best entry on an equal key would find
MinByKeyFrom_last(q, st, i, best) ==
    CHOOSE k \in 1..Len(q) :
        \A j \in 1..Len(q) :
            /\ st[q[k]] <= st[q[j]]
            /\ (st[q[j]] = st[q[k]] => j <= k)

RECURSIVE MinByKeyFrom(_, _, _, _)
MinByKeyFrom(q, st, i, best) ==
    IF i > Len(q) THEN best
    ELSE MinByKeyFrom(q, st, i + 1, IF st[q[best]] > st[q[i]] THEN i ELSE best)

\* min_index of fetch(); 0 when the queue is empty (the `?` returns None)
MinIndex(q, st) == IF Len(q) = 0 THEN 0 ELSE MinByKeyFrom(q, st, 2, 1)

\* TaskControlBlockInner::add_stride
add_stride(st, pa, t) == [st EXCEPT ![t] = (st[t] + pa[t]) % StrideMod]

\* VecDeque::remove(index), index counted from 1 here
RemoveAt(q, i) == SubSeq(q, 1, i - 1) \o SubSeq(q, i + 1, Len(q))

\* TaskManager::fetch: the returned task, the queue and the strides after it
fetch_ret(q, st) == IF MinIndex(q, st) = 0 THEN None ELSE q[MinIndex(q, st)]

\* removes the front entry instead of the one at min_index
fetch_queue_front(q, st) == IF MinIndex(q, st) = 0 THEN q ELSE Tail(q)

\* returns the winner without removing it (VecDeque::get for remove)
fetch_queue_keep(q, st) == q

fetch_queue(q, st) ==
    IF MinIndex(q, st) = 0 THEN q ELSE RemoveAt(q, MinIndex(q, st))

\* the stride of the front entry is advanced, whichever entry is returned
fetch_stride_front(q, st, pa) ==
    IF MinIndex(q, st) = 0 THEN st ELSE add_stride(st, pa, q[1])

fetch_stride(q, st, pa) ==
    IF MinIndex(q, st) = 0 THEN st ELSE add_stride(st, pa, q[MinIndex(q, st)])

\* TaskManager::add
add(q, t) == Append(q, t)

\* TaskManager::new through lazy_static: the first use captures the time
\* reads the timer at every access instead of keeping the captured epoch
new_start_time_now == time

new_start_time == IF constructed THEN start_time ELSE time

Count(q, t) == Cardinality({i \in 1..Len(q) : q[i] = t})

\* ------------------------------------------------------------ operations

\* add_task(task) for a task that is created (fork, initproc)
Spawn(t) ==
    /\ status[t] = "unborn"
    /\ constructed' = TRUE
    /\ start_time' = new_start_time
    /\ ready_queue' = add(ready_queue, t)
    /\ status' = [status EXCEPT ![t] = "ready"]
    /\ outstanding' = [outstanding EXCEPT ![t] = @ + 1]
    /\ op' = "add"
    /\ ret' = None
    /\ UNCHANGED <<stride, pass, current, time>>
    /\ UNCHANGED <<mmVars, copyVars, infoVars>>

\* suspend_current_and_run_next: add_task(current), the processor goes idle
Suspend ==
    /\ current # None
    /\ constructed' = TRUE
    /\ start_time' = new_start_time
    /\ ready_queue' = add(ready_queue, current)
    /\ status' = [status EXCEPT ![current] = "ready"]
    /\ outstanding' = [outstanding EXCEPT ![current] = @ + 1]
    /\ current' = None
    /\ op' = "add"
    /\ ret' = None
    /\ UNCHANGED <<stride, pass, time>>
    /\ UNCHANGED <<mmVars, copyVars, infoVars>>

\* exit_current_and_run_next: the current task is not added again
Exit ==
    /\ current # None
    /\ status' = [status EXCEPT ![current] = "exited"]
    /\ current' = None
    /\ op' = "exit"
    /\ ret' = None
    /\ UNCHANGED <<constructed, start_time, ready_queue, stride, pass, time,
                   outstanding>>
    /\ UNCHANGED <<mmVars, copyVars, infoVars>>

\* fetch_task() from the idle processor loop
Fetch ==
    /\ current = None
    /\ constructed' = TRUE
    /\ start_time' = new_start_time
    /\ ret' = fetch_ret(ready_queue, stride)
    /\ ready_queue' = fetch_queue(ready_queue, stride)
    /\ stride' = fetch_stride(ready_queue, stride, pass)
    /\ current' = ret'
    /\ status' = IF ret' = None THEN status
                 ELSE [status EXCEPT ![ret'] = "running"]
    /\ outstanding' = IF ret' = None THEN outstanding
                      ELSE [outstanding EXCEPT ![ret'] = @ - 1]
    /\ op' = "fetch"
    /\ UNCHANGED <<pass, time>>
    /\ UNCHANGED <<mmVars, copyVars, infoVars>>

\* the timer advances
Tick ==
    /\ time < MaxTime
    /\ time' = time + 1
    /\ op' = "tick"
    /\ ret' = None
    /\ UNCHANGED <<constructed, start_time, ready_queue, stride, pass, status,
                   current, outstanding>>
    /\ UNCHANGED <<mmVars, copyVars, infoVars>>

\* ------------------------------------------------- memory mapping syscalls

WORD == 2 ^ WordBits            \* usize arithmetic is modulo WORD
PAGE_SIZE == 2 ^ PageSizeBits   \* config::PAGE_SIZE
Pages == 0..((WORD \div PAGE_SIZE) - 1)

\* MapPermission bits (mm::MapPermission) and the u8 the bits are cast to
PERM_R == 2
PERM_W == 4
PERM_X == 8
PERM_U == 16
U8 == 256

\* x & !(2^k - 1) on unsigned words, for m = 2^k
AndNotMask(x, m) == x - (x % m)
\* x & (2^k - 1)
AndMask(x, m) == x % m

\* the pages a request [s, e) covers: s.floor() .. e.ceil(); empty when e <= s
RangePages(s, e) == {p \in Pages : p * PAGE_SIZE < e /\ (p + 1) * PAGE_SIZE > s}

\* Memory Mapper install: refused when a page of the range is already mapped
mmap(m, s, e, perm) ==
    IF RangePages(s, e) \cap m # {}
    THEN [ok |-> FALSE, maps |-> m]
    ELSE [ok |-> TRUE, maps |-> m \cup RangePages(s, e)]

\* Memory Mapper remove: refused when a page of the range is not mapped
munmap(m, s, e) ==
    IF RangePages(s, e) \ m # {}
    THEN [ok |-> FALSE, maps |-> m]
    ELSE [ok |-> TRUE, maps |-> m \ RangePages(s, e)]

\* MapPermission::from_bits: None when a bit outside R|W|X|U is set
from_bits_ok(bits) ==
    /\ bits % 2 = 0
    /\ bits < 2 * PERM_U

\* sys_mmap, sys_munmap: start % PAGE_SIZE != 0
Misaligned_off(start) == FALSE

Misaligned(start) == start % PAGE_SIZE # 0

\* sys_mmap: len rounded up to a page multiple, wrapping
RoundLen(len) ==
    IF len # 0 THEN AndNotMask((len + PAGE_SIZE - 1) % WORD, PAGE_SIZE) ELSE len

\* only the second test: bits above the low three are not looked at
PortRejected_low(port) == AndMask(port, 8) = 0

\* sys_mmap: port & !0x7 != 0 || port & 0x7 == 0
PortRejected(port) == AndNotMask(port, 8) # 0 \/ AndMask(port, 8) = 0

\* sys_mmap: (port << 1) as u8, then | MapPermission::U
PortBits(port) == (port * 2) % U8
\* the converted bits alone, without | MapPermission::U
PermOf_nouser(port) == PortBits(port)

PermOf(port) ==
    PortBits(port) + (IF (PortBits(port) \div PERM_U) % 2 = 0 THEN PERM_U ELSE 0)

\* the end of the range handed to the mapper: start + len, wrapping
MmapEnd(start, len) == (start + len) % WORD

\* passes len where the end address start + len belongs
MunmapEnd_len(start, len) == len % WORD

MunmapEnd(start, len) == (start + len) % WORD

NoRequest == [called |-> FALSE, ms |-> 0, me |-> 0, perm |-> 0]

\* sys_mmap(start, len, port) on address space m
sys_mmap(m, start, len, port) ==
    IF Misaligned(start)
    THEN [ret |-> -1, panicked |-> FALSE, maps |-> m, req |-> NoRequest]
    ELSE IF PortRejected(port)
    THEN [ret |-> -1, panicked |-> FALSE, maps |-> m, req |-> NoRequest]
    ELSE IF ~from_bits_ok(PortBits(port))
    THEN [ret |-> 0, panicked |-> TRUE, maps |-> m, req |-> NoRequest]
    ELSE LET e == MmapEnd(start, RoundLen(len))
             r == mmap(m, start, e, PermOf(port))
         IN  [ret |-> IF r.ok THEN 0 ELSE -1,
              panicked |-> FALSE,
              maps |-> r.maps,
              req |-> [called |-> TRUE, ms |-> start, me |-> e,
                       perm |-> PermOf(port)]]

\* rounds len up to a page multiple as sys_mmap does, instead of rejecting it
sys_munmap_rounding(m, start, len) ==
    IF Misaligned(start)
    THEN [ret |-> -1, panicked |-> FALSE, maps |-> m, req |-> NoRequest]
    ELSE LET e == MunmapEnd(start, RoundLen(len))
             r == munmap(m, start, e)
         IN  [ret |-> IF r.ok THEN 0 ELSE -1,
              panicked |-> FALSE,
              maps |-> r.maps,
              req |-> [called |-> TRUE, ms |-> start, me |-> e, perm |-> 0]]

\* sys_munmap(start, len) on address space m
sys_munmap(m, start, len) ==
    IF Misaligned(start)
    THEN [ret |-> -1, panicked |-> FALSE, maps |-> m, req |-> NoRequest]
    ELSE IF len % PAGE_SIZE # 0
    THEN [ret |-> -1, panicked |-> FALSE, maps |-> m, req |-> NoRequest]
    ELSE LET e == MunmapEnd(start, len)
             r == munmap(m, start, e)
         IN  [ret |-> IF r.ok THEN 0 ELSE -1,
              panicked |-> FALSE,
              maps |-> r.maps,
              req |-> [called |-> TRUE, ms |-> start, me |-> e, perm |-> 0]]

\* the arguments user code passes: low addresses and the top of the word range
Starts == {a \in 0..(WORD - 1) : a <= MaxStart \/ a >= WORD - PAGE_SIZE}
Lens == {l \in 0..(WORD - 1) : l <= MaxLen \/ l >= WORD - PAGE_SIZE}
Ports == 0..MaxPort

NoChain == [n |-> 0, start |-> 0, raw |-> 0, len |-> 0, pre |-> {}]

SysMmap ==
    /\ ~last.panicked
    /\ \E start \in Starts, len \in Lens, port \in Ports :
         LET r == sys_mmap(maps, start, len, port)
         IN  /\ maps' = r.maps
             /\ last' = [op |-> "mmap", start |-> start, len |-> len,
                         port |-> port, ret |-> r.ret,
                         panicked |-> r.panicked, req |-> r.req]
             /\ chain' = IF r.ret = 0 /\ ~r.panicked
                         THEN [n |-> 1, start |-> start, raw |-> len,
                               len |-> RoundLen(len), pre |-> maps]
                         ELSE NoChain
    /\ mm_pre' = maps
    /\ UNCHANGED <<schedVars, copyVars, infoVars>>

SysMunmap ==
    /\ ~last.panicked
    /\ \E start \in Starts, len \in Lens :
         LET r == sys_munmap(maps, start, len)
         IN  /\ maps' = r.maps
             /\ last' = [op |-> "munmap", start |-> start, len |-> len,
                         port |-> 0, ret |-> r.ret,
                         panicked |-> r.panicked, req |-> r.req]
             /\ chain' = IF /\ chain.n \in {1, 2}
                            /\ chain.start = start
                            /\ chain.len = len
                         THEN [chain EXCEPT !.n = @ + 1]
                         ELSE NoChain
    /\ mm_pre' = maps
    /\ UNCHANGED <<schedVars, copyVars, infoVars>>

MmInit ==
    /\ maps = {}
    /\ mm_pre = {}
    /\ last = [op |-> "none", start |-> 0, len |-> 0, port |-> 0, ret |-> 0,
               panicked |-> FALSE, req |-> NoRequest]
    /\ chain = NoChain

\* ------------------------------------------------------------- copyout

UserPages == 0..(NumFrames - 1)
Frames == 0..(NumFrames - 1)
PhysAddrs == 0..(NumFrames * PAGE_SIZE - 1)
Bytes == 1..MaxByte

Min(a, b) == IF a < b THEN a ELSE b

\* Address Translator: the physical slices covering [start, end), one per page
\* touched, cut at every page boundary; a slice is its byte addresses in order
RECURSIVE translated_byte_buffer(_, _, _)
translated_byte_buffer(table, start, end) ==
    IF start >= end THEN <<>>
    ELSE LET vpn == start \div PAGE_SIZE
             end_va == Min((vpn + 1) * PAGE_SIZE, end)
             slice == [i \in 1..(end_va - start) |->
                          table[vpn] * PAGE_SIZE + (start % PAGE_SIZE) + i - 1]
         IN  <<slice>> \o translated_byte_buffer(table, end_va, end)

\* stops after the first slice: the bytes of the first page only
Flatten_first(slices) == IF slices = <<>> THEN <<>> ELSE Head(slices)

\* Iterator::flatten over the slices
RECURSIVE Flatten(_)
Flatten(slices) ==
    IF slices = <<>> THEN <<>> ELSE Head(slices) \o Flatten(Tail(slices))

\* Iterator::zip: pairs up to the shorter of the two
Zip(a, b) == [i \in 1..Min(Len(a), Len(b)) |-> <<a[i], b[i]>>]

\* for_each(|(b, s)| *b = *s) from the i-th pair on
RECURSIVE ForEachStore(_, _, _)
ForEachStore(m, pairs, i) ==
    IF i > Len(pairs) THEN m
    ELSE ForEachStore([m EXCEPT ![pairs[i][1]] = pairs[i][2]], pairs, i + 1)

\* copyout(src, dst): physical memory after the copy
copyout(m, table, src, dst) ==
    ForEachStore(m,
                 Zip(Flatten(translated_byte_buffer(table, dst, dst + Len(src))),
                     src),
                 1)

\* a syscall copies a kernel value to user address dst (sys_get_time,
\* sys_task_info)
Copyout ==
    /\ ~cp.done
    /\ \E n \in 0..MaxCopy :
         \E src \in [1..n -> Bytes], dst \in 0..(NumFrames * PAGE_SIZE - n) :
            /\ mem' = copyout(mem, pt, src, dst)
            /\ cp' = [dst |-> dst, src |-> src, done |-> TRUE]
    /\ UNCHANGED <<pt, schedVars, mmVars, infoVars>>

CopyIdle ==
    /\ pt = [p \in UserPages |-> p]
    /\ mem = [a \in PhysAddrs |-> 0]
    /\ cp = [dst |-> 0, src |-> <<>>, done |-> FALSE]

\* any assignment of distinct frames to the user pages
CopyInit ==
    /\ pt \in {f \in [UserPages -> Frames] :
                 \A p, q \in UserPages : p # q => f[p] # f[q]}
    /\ mem = [a \in PhysAddrs |-> 0]
    /\ cp = [dst |-> 0, src |-> <<>>, done |-> FALSE]

\* ------------------------------------------------- start time and task info

\* TaskStatus::Running as a byte of TaskInfo
Running == 1

\* the user address of the TaskInfo buffer: its fields lie on two pages
TiAddr == PAGE_SIZE - 1

\* the operands of the subtraction the wrong way round
task_info_time_swapped(now, start) == (start - now) % WORD

\* the time field of TaskInfo: get_time_ms() - get_start_time(), in usize
task_info_time(now, start) == (now - start) % WORD

\* get_start_time(): the first use of TASK_MANAGER builds it; the start time
\* is returned
GetStartTime ==
    /\ constructed' = TRUE
    /\ start_time' = new_start_time
    /\ seen' = [called |-> TRUE, value |-> start_time']
    /\ op' = "get_start_time"
    /\ ret' = None
    /\ UNCHANGED <<ready_queue, stride, pass, status, current, time,
                   outstanding>>
    /\ UNCHANGED <<mmVars, copyVars>>

\* sys_task_info(ti) of the running task: the timer is read, then the start
\* time, and the TaskInfo is copied out to the user buffer
\* (syscall_times, counters kept outside the task manager, are left out).
\* The handler is one step: the timer advances between handlers (Tick).
SysTaskInfo ==
    /\ current # None
    /\ constructed' = TRUE
    /\ start_time' = new_start_time
    /\ seen' = [called |-> TRUE, value |-> start_time']
    /\ LET task_info == <<Running, task_info_time(time, start_time')>>
       IN  /\ mem' = copyout(mem, pt, task_info, TiAddr)
           /\ cp' = [dst |-> TiAddr, src |-> task_info, done |-> TRUE]
    /\ op' = "task_info"
    /\ ret' = None
    /\ UNCHANGED <<ready_queue, stride, pass, status, current, time,
                   outstanding>>
    /\ UNCHANGED <<pt, mmVars>>

InfoInit == seen = [called |-> FALSE, value |-> 0]

SchedInit ==
    /\ constructed = FALSE
    /\ start_time = 0
    /\ ready_queue = <<>>
    /\ stride = [t \in Tasks |-> 0]
    \* tasks are interchangeable: increments in task order
    /\ pass \in {f \in [Tasks -> 1..MaxPass] :
                   \A t, u \in Tasks : t < u => f[t] <= f[u]}
    /\ status = [t \in Tasks |-> "unborn"]
    /\ current = None
    /\ time = 0
    /\ op = "init"
    /\ ret = None
    /\ outstanding = [t \in Tasks |-> 0]

\* the task manager at boot; the address space is not exercised
Init == SchedInit /\ MmInit /\ CopyIdle /\ InfoInit

Next ==
    \/ \E t \in Tasks : Spawn(t)
    \/ Suspend
    \/ Exit
    \/ Fetch
    \/ Tick

Spec == Init /\ [][Next]_vars

\* the closed system: every task that runs yields, none exits; the idle
\* processor always fetches again and a running task always yields
ClosedNext ==
    \/ \E t \in Tasks : Spawn(t)
    \/ Suspend
    \/ Fetch

FairSpec == Init /\ [][ClosedNext]_vars /\ WF_vars(Suspend) /\ WF_vars(Fetch)

\* the memory mapping syscalls of one task; the scheduler stays at boot
SchedIdle ==
    /\ SchedInit
    /\ pass = [t \in Tasks |-> 1]

MmStart == SchedIdle /\ MmInit /\ CopyIdle /\ InfoInit

MmNext ==
    \/ SysMmap
    \/ SysMunmap

MmSpec == MmStart /\ [][MmNext]_vars

\* copyout into one task's address space
CopyStart == SchedIdle /\ MmInit /\ CopyInit /\ InfoInit

CopyNext == Copyout

CopySpec == CopyStart /\ [][CopyNext]_vars
\* the closed system with every task present from the start: all tasks were
\* added with equal strides before the first fetch, and from then on the
\* running task is re-added (yield) before the next fetch
AllReady ==
    /\ constructed = TRUE
    /\ start_time = 0
    /\ ready_queue = [i \in 1..NumTasks |-> i]
    /\ stride = [t \in Tasks |-> 0]
    /\ pass \in [Tasks -> 1..MaxPass]
    /\ status = [t \in Tasks |-> "ready"]
    /\ current = None
    /\ time = 0
    \* no fetch and no yield yet
    /\ op = "init"
    /\ ret = None
    /\ outstanding = [t \in Tasks |-> 1]

YieldStart == AllReady /\ MmInit /\ CopyIdle /\ InfoInit

YieldNext ==
    \/ Suspend
    \/ Fetch

YieldSpec == YieldStart /\ [][YieldNext]_vars
\* the scheduler with the clock: tasks are added, fetched, yield and exit, the
\* timer advances, the running task asks for its TaskInfo and the kernel
\* reads the start time
TimeStart == SchedIdle /\ MmInit /\ CopyIdle /\ InfoInit

TimeNext ==
    \/ \E t \in Tasks : Spawn(t)
    \/ Suspend
    \/ Exit
    \/ Fetch
    \/ Tick
    \/ SysTaskInfo
    \/ GetStartTime

TimeSpec == TimeStart /\ [][TimeNext]_vars
\* ------------------------------------------------------------ properties

\* a step of fetch(): the processor is idle and the step is recorded as fetch
IsFetch == current = None /\ op' = "fetch"

\* the stride the task fetch() just returned had when it was selected
StrideAtFetch == (stride[ret] - pass[ret]) % StrideMod

\* C1: fetch() never returns a task whose stride, read before it is advanced,
\* is not the minimum of the strides of the tasks in the ready queue.
FetchReturnsMinStride ==
    [][(IsFetch /\ ret' # None) =>
          \A i \in 1..Len(ready_queue) :
              stride[ret'] <= stride[ready_queue[i]]]_vars

\* C1 witness: fetch() returned a task while a task with a larger stride, and
\* nearer the front of the queue, stayed behind.
FetchPassedOverLarger ==
    /\ op = "fetch"
    /\ ret # None
    /\ Len(ready_queue) >= 1
    /\ stride[ready_queue[1]] > StrideAtFetch
    /\ StrideAtFetch < stride[ret]

\* C2: the ready queue holds exactly the tasks added and not yet fetched: per
\* task, its entries in the queue are its add() calls minus the times fetch()
\* returned it (nothing fetched that is not queued, nothing fetched twice,
\* nothing lost).
QueueIsAddedMinusFetched ==
    \A t \in Tasks : Count(ready_queue, t) = outstanding[t]

\* C2 witness: a task was added, fetched, added again and fetched again while
\* another task waits in the queue.
FetchedAgainAfterReAdd ==
    /\ op = "fetch"
    /\ ret # None
    /\ stride[ret] >= 2 * pass[ret]
    /\ Len(ready_queue) >= 1
    /\ outstanding[ret] = 0

FetchOnEmptyChangesNothing ==
    [][(IsFetch /\ constructed /\ ready_queue = <<>>) =>
          /\ ret' = None
          /\ current' = None
          /\ ready_queue' = <<>>
          /\ start_time' = start_time
          /\ stride' = stride
          /\ outstanding' = outstanding]_vars

\* C4 witness: fetch() found the queue empty after tasks had run and exited
\* and the timer had moved past the epoch.
FetchedFromEmptyQueue ==
    /\ op = "fetch"
    /\ ret = None
    /\ ready_queue = <<>>
    /\ \E t \in Tasks : status[t] = "exited" /\ stride[t] > 0
    /\ time > start_time

\* C5: a task is in the ready queue at most once, and the running task (the
\* one fetch() returned) is not in it until add() inserts it again.
QueuedAtMostOnce ==
    /\ \A t \in Tasks : Count(ready_queue, t) <= 1
    /\ current # None => Count(ready_queue, current) = 0

\* C5 witness: a task that ran before is back at the end of the queue behind
\* another task, re-inserted by add().
ReAddedBehindOthers ==
    /\ op = "add"
    /\ Len(ready_queue) >= 2
    /\ stride[ready_queue[Len(ready_queue)]] > 0
\* the pages of the range [start, start + len) as the caller means it: the
\* addresses are not reduced modulo WORD, and no page exists at or above WORD
MeantPages(start, len) ==
    {p \in 0..(2 * (WORD \div PAGE_SIZE)) :
        p * PAGE_SIZE < start + len /\ (p + 1) * PAGE_SIZE > start}

\* C6: with start not a multiple of the page size sys_mmap and sys_munmap
\* return -1, never call the Memory Mapper and leave the mappings as they
\* were.
MisalignedStartRejected ==
    (last.op \in {"mmap", "munmap"} /\ last.start % PAGE_SIZE # 0) =>
        /\ last.ret = -1
        /\ ~last.panicked
        /\ ~last.req.called
        /\ maps = mm_pre

\* C6 witness: a misaligned sys_mmap, otherwise valid and over unmapped
\* pages, was made on an address space that holds a mapping.
MisalignedMmapMade ==
    /\ last.op = "mmap"
    /\ last.start % PAGE_SIZE # 0
    /\ last.port \in 1..7
    /\ last.len = PAGE_SIZE
    /\ maps # {}
    /\ MeantPages(last.start, last.len) \cap maps = {}

\* C7: with port outside 1..7 sys_mmap returns -1 and installs nothing, for
\* every start and len.
BadPortRejected ==
    (last.op = "mmap" /\ last.port \notin 1..7) =>
        /\ last.ret = -1
        /\ ~last.panicked
        /\ ~last.req.called
        /\ maps = mm_pre

\* C7 witness: a sys_mmap of one unmapped page at an aligned start with a
\* port that has a low bit and a bit above the low three.
HighBitPortMmapMade ==
    /\ last.op = "mmap"
    /\ last.port > 8
    /\ last.start % PAGE_SIZE = 0
    /\ last.len = PAGE_SIZE
    /\ MeantPages(last.start, last.len) \cap maps = {}

\* C8: a successful sys_mmap(start, len, port) followed by sys_munmap(start,
\* rounded len) returns 0 and leaves the mappings as they were before the
\* sys_mmap.
MmapMunmapRoundTrip ==
    chain.n = 2 =>
        /\ last.ret = 0
        /\ ~last.panicked
        /\ maps = chain.pre

\* C8 witness: the round trip was made with a len that is not a page
\* multiple, on an address space that held another mapping, and the
\* sys_munmap removed pages.
RoundTripMade ==
    /\ chain.n = 2
    /\ chain.raw % PAGE_SIZE # 0
    /\ chain.pre # {}
    /\ mm_pre # chain.pre

\* C9: sys_mmap of an unmapped, page-aligned, non-empty range with valid
\* permissions returns 0, the sys_munmap of the same range that follows
\* returns 0 and the one after that returns -1; sys_munmap of a range a part
\* of which is not mapped returns -1.
MunmapOfUnmappedFails ==
    /\ (/\ last.op = "mmap"
        /\ last.start % PAGE_SIZE = 0
        /\ last.len % PAGE_SIZE = 0
        /\ last.len > 0
        /\ last.port \in 1..7
        /\ MeantPages(last.start, last.len) \cap mm_pre = {}) => last.ret = 0
    /\ (chain.n = 2 /\ chain.raw = chain.len /\ chain.raw > 0) => last.ret = 0
    /\ (chain.n = 3 /\ chain.raw = chain.len /\ chain.raw > 0) => last.ret = -1
    /\ (/\ last.op = "munmap"
        /\ MeantPages(last.start, last.len) \ mm_pre # {}) => last.ret = -1

\* the physical address of user address va
Translate(table, va) ==
    table[va \div PAGE_SIZE] * PAGE_SIZE + (va % PAGE_SIZE)

\* C10: after copyout the i-th byte of the destination range is the i-th
\* byte of the source, however the range is split into slices.
CopyoutIsSplitTransparent ==
    cp.done =>
        \A i \in 1..Len(cp.src) : mem[Translate(pt, cp.dst + i - 1)] = cp.src[i]

\* C10 witness: a value was copied to a destination cut into three slices of
\* unequal lengths lying in frames that are not adjacent in order.
CopiedAcrossThreeSlices ==
    /\ cp.done
    /\ Len(translated_byte_buffer(pt, cp.dst, cp.dst + Len(cp.src))) >= 3
    /\ \E i, j \in 1..Len(translated_byte_buffer(pt, cp.dst, cp.dst + Len(cp.src))) :
          Len(translated_byte_buffer(pt, cp.dst, cp.dst + Len(cp.src))[i])
              # Len(translated_byte_buffer(pt, cp.dst, cp.dst + Len(cp.src))[j])
    /\ pt[(cp.dst \div PAGE_SIZE) + 1] # pt[cp.dst \div PAGE_SIZE] + 1

\* the task the last yield put at the back of the ready queue
LastYielded == ready_queue[Len(ready_queue)]

LargestPass == CHOOSE m \in {pass[t] : t \in Tasks} : \A t \in Tasks : pass[t] <= m

FetchTouchesOnlyReturnedTask ==
    [][(IsFetch /\ ready_queue # <<>>) =>
          /\ ret' # None
          /\ stride' = [stride EXCEPT
                           ![ret'] = (stride[ret'] + pass[ret']) % StrideMod]
          /\ \E i \in 1..Len(ready_queue) :
                /\ ready_queue[i] = ret'
                /\ Len(ready_queue') = Len(ready_queue) - 1
                /\ \A j \in 1..(i - 1) : ready_queue'[j] = ready_queue[j]
                /\ \A j \in i..Len(ready_queue') :
                       ready_queue'[j] = ready_queue[j + 1]
          /\ pass' = pass
          /\ start_time' = start_time]_vars

\* C13 witness: fetch() returned a task from behind the front of the queue,
\* two or more entries stayed, and the clock had moved on since the task
\* manager was built.
FetchLeftTwoBehind ==
    /\ op = "fetch"
    /\ ret # None
    /\ Len(ready_queue) >= 2
    /\ stride[ready_queue[1]] > StrideAtFetch
    /\ stride[ret] = StrideAtFetch + pass[ret]
    /\ time > start_time

\* C16: when several queued tasks share the minimum stride, fetch() returns
\* the one nearest the front of the queue: no entry in front of the returned
\* task has the same stride.
FetchTieGoesToFront ==
    [][(IsFetch /\ ret' # None) =>
          \A i, j \in 1..Len(ready_queue) :
              (ready_queue[j] = ret' /\ stride[ready_queue[i]] = stride[ret'])
                  => j <= i]_vars

\* C16 witness: fetch() returned a task while another queued task had the
\* same stride, and that task is still queued.
FetchBrokeTie ==
    /\ op = "fetch"
    /\ ret # None
    /\ stride[ret] = StrideAtFetch + pass[ret]
    /\ \E i \in 1..Len(ready_queue) : stride[ready_queue[i]] = StrideAtFetch

\* C12: with len not an exact multiple of the page size sys_munmap returns
\* -1, never calls the Memory Mapper and leaves the mappings as they were; it
\* does not round len.
MunmapRejectsPartialPage ==
    (last.op = "munmap" /\ last.len % PAGE_SIZE # 0) =>
        /\ last.ret = -1
        /\ ~last.panicked
        /\ ~last.req.called
        /\ maps = mm_pre

\* C12 witness: a sys_munmap at an aligned start with a len that is not a
\* page multiple, over pages that were all mapped, so that the rounded range
\* could have been removed.
PartialPageMunmapMade ==
    /\ last.op = "munmap"
    /\ last.start % PAGE_SIZE = 0
    /\ last.len % PAGE_SIZE # 0
    /\ last.start + last.len < WORD
    /\ MeantPages(last.start, last.len) # {}
    /\ MeantPages(last.start, last.len) \subseteq mm_pre

\* the smallest multiple of the page size that is >= len, as a number
RoundedUp(len) == ((len + PAGE_SIZE - 1) \div PAGE_SIZE) * PAGE_SIZE

\* C14: for every len, sys_mmap asks the Memory Mapper for the range
\* [start, start + r) with r the smallest multiple of the page size >= len
\* (r = 0 for len = 0), also near the top of the word range.
MmapRoundsEveryLen ==
    (last.op = "mmap" /\ last.req.called) =>
        /\ last.req.ms = last.start
        /\ last.req.me = last.start + RoundedUp(last.len)

\* the permission bit-set the claim assigns to a port
PermMeant(port) ==
    (IF port % 2 = 1 THEN PERM_R ELSE 0)
        + (IF (port \div 2) % 2 = 1 THEN PERM_W ELSE 0)
        + (IF (port \div 4) % 2 = 1 THEN PERM_X ELSE 0)
        + PERM_U

\* C17: for every port in 1..7 the permission conversion succeeds without a
\* panic and the permission handed to the Memory Mapper is exactly Read for
\* bit 0, Write for bit 1, Execute for bit 2, plus User; no mapping is ever
\* requested without the User flag.
PortBitsBecomePermission ==
    /\ (last.op = "mmap" /\ last.start % PAGE_SIZE = 0 /\ last.port \in 1..7) =>
           /\ ~last.panicked
           /\ last.req.called
           /\ last.req.perm = PermMeant(last.port)
    /\ (last.op = "mmap" /\ last.req.called) =>
           (last.req.perm \div PERM_U) % 2 = 1

\* C17 witness: a sys_mmap with port 5 (read and execute) installed a
\* mapping.
ReadExecMmapMade ==
    /\ last.op = "mmap"
    /\ last.port = 5
    /\ last.ret = 0
    /\ last.req.called
    /\ maps # mm_pre

StartTimeIsFixedEpoch ==
    [][/\ constructed => (constructed' /\ start_time' = start_time)
       /\ (op' \in {"get_start_time", "task_info"}) =>
              /\ seen'.called
              /\ seen'.value = start_time'
              /\ seen.called => seen'.value = seen.value
              /\ ready_queue' = ready_queue
              /\ stride' = stride]_vars

\* C20 witness: get_start_time() was called again, after tasks were queued
\* and fetched and after the clock had moved on since the first call.
StartTimeReadLater ==
    /\ op = "get_start_time"
    /\ seen.called
    /\ time > seen.value
    /\ ready_queue # <<>>
    /\ \E t \in Tasks : stride[t] > 0
====
